---- MODULE Spec2Model ----
(***************************************************************************)
(* Model of node/e2e-tests/test-runner/src/utils.rs: the base-path         *)
(* resolver (base_path), the log tee (logger) and the configuration        *)
(* builder (default_config).                                               *)
(*                                                                         *)
(* The log tee is built on env_logger and log.  Their behaviour at the     *)
(* call sites of utils.rs is modelled as those crates implement it:        *)
(*   - env_logger::builder() reads RUST_LOG and targets standard error     *)
(*     (Target::default() is Stderr; utils.rs never calls .target(..));    *)
(*     is_test(true) keeps that target and writes through eprint!;         *)
(*   - filter_module pushes a directive; build sorts the directives by     *)
(*     name length (stable) and `enabled` scans them from the back, the    *)
(*     first whose name is a prefix of the record's target deciding;       *)
(*   - try_init installs the logger with log::set_boxed_logger, which      *)
(*     succeeds once per process, and only then sets log::max_level.       *)
(***************************************************************************)
EXTENDS Integers, Sequences, FiniteSets, TLC

\* ------------------------------------------------------------------ bounds
MaxCalls == 2
MaxInstalls == 2
MaxTargets == 2
SinkCap == 1
MaxBasePaths == 2

\* ------------------------------------------------- log::Level / LevelFilter
Off == 0
Error == 1
Warn == 2
Info == 3
Debug == 4

Threads == {"t1", "t2"}

\* module paths and record targets, as character sequences
ModA == <<"a">>
ModAB == <<"a", "b">>
ModC == <<"c">>

Messages == {<<"x">>}

\* records the threads log under Spec: <<level, target>>
Records == {<<Info, ModA>>, <<Debug, ModA>>, <<Error, ModC>>}

\* records the threads log under FairSpec
FairRecords == {<<Info, ModA>>, <<Debug, ModA>>}

\* records probed under FilterSpec: <<level, target>>
Probes == {<<Error, ModA>>, <<Warn, ModA>>, <<Info, ModAB>>, <<Debug, ModAB>>}

Directive(name, level) == [name |-> name, level |-> level]

\* the (module, level) overrides a caller may pass to logger
FilterPairs == {Directive(ModA, Warn), Directive(ModA, Error), Directive(ModAB, Info)}

RECURSIVE SeqsUpTo(_, _)
SeqsUpTo(S, n) ==
  IF n = 0 THEN {<< >>}
  ELSE LET shorter == SeqsUpTo(S, n - 1)
       IN  shorter \cup {Append(s, x) : s \in shorter, x \in S}

LogTargetInputs == SeqsUpTo(FilterPairs, MaxTargets)

\* the overrides passed under Spec and FairSpec
LogTargetChoices == {<< >>, <<Directive(ModA, Info)>>}

\* RUST_LOG as env_logger::builder() parses it: unset, or "warn"
RustLogChoices == {<< >>, <<Directive(<< >>, Warn)>>}

VARIABLES
  rustLog,      \* directives parsed from RUST_LOG
  installed,    \* log's global logger state: FALSE uninitialized, TRUE installed
  filter,       \* the installed logger's built directives
  maxLevel,     \* log::max_level()
  loggerSink,   \* the sink captured by the installed format closure (0: none)
  installCalls, \* number of logger(..) calls made; call k supplies sink k
  logTargets,   \* the log_targets argument of the logger(..) call that installed
  calls,        \* the log calls made so far, in order of their start
  pc,           \* per thread: "idle" or "print" (closure returned, line not yet printed)
  cur,          \* per thread: the call being printed
  taskSt,       \* per call: "none", "spawned", "done", "panicked"
  taskSink,     \* per call: the sink clone its task holds
  stdout,       \* lines written to standard output
  stderr,       \* lines written to standard error
  delivered,    \* per sink: every string the sink accepted, in order
  sinkLen,      \* per sink: strings accepted and not yet taken by the consumer
  sinkClosed,   \* per sink: closed / dropped by its consumer
  dbBasePath,   \* the DB_BASE_PATH environment variable
  fs,           \* directories existing on disk
  basePaths,    \* outcomes of base_path() calls, in order
  configs       \* outcomes of default_config() calls, in order

logVars == <<rustLog, installed, filter, maxLevel, loggerSink, installCalls, logTargets,
             calls, pc, cur, taskSt, taskSink, stdout, stderr, delivered, sinkLen,
             sinkClosed>>
cfgVars == <<dbBasePath, fs, basePaths, configs>>
vars == <<rustLog, installed, filter, maxLevel, loggerSink, installCalls, logTargets,
          calls, pc, cur, taskSt, taskSink, stdout, stderr, delivered, sinkLen,
          sinkClosed, dbBasePath, fs, basePaths, configs>>

\* DB_BASE_PATH: unset, set to a Unicode value, or set to a value that is not
\* valid Unicode
EnvUnset == [state |-> "unset", value |-> << >>]
UserDirs == {<<"p">>, <<"q">>}
EnvStates ==
  {EnvUnset} \cup {[state |-> st, value |-> d] : st \in {"unicode", "notunicode"},
                                                d \in UserDirs}

\* names BasePath::new_temp_dir may give a directory; NoDir: creation failed
TmpNames == {"substrate1", "substrate2"}
NoDir == "none"
TempPath(n) == <<"tmp", n>>

ChainIds == {"dev"}

Sinks == 1..MaxInstalls
CallIds == 1..MaxCalls

\* ----------------------------------------------------------- pure helpers
StartsWith(target, name) ==
  /\ Len(name) <= Len(target)
  /\ SubSeq(target, 1, Len(name)) = name

LevelName(level) ==
  CASE level = Error -> <<"E", "R", "R", "O", "R">>
    [] level = Warn  -> <<"W", "A", "R", "N">>
    [] level = Info  -> <<"I", "N", "F", "O">>
    [] level = Debug -> <<"D", "E", "B", "U", "G">>

\* format!("{} {} {}", record.level(), record.target(), record.args())
FormatEntry(level, target, msg) ==
  LevelName(level) \o <<" ">> \o target \o <<" ">> \o msg

\* writeln!(buf, "{}", entry)
WriteLn(entry) == entry \o <<"\n">>

RECURSIVE SortFrom(_, _, _)
SortFrom(ds, n, top) ==
  IF n > top THEN << >>
  ELSE SelectSeq(ds, LAMBDA d : Len(d.name) = n) \o SortFrom(ds, n + 1, top)

\* sort_by name length; the sort is stable
SortByNameLen(ds) ==
  LET lens == {Len(ds[i].name) : i \in DOMAIN ds}
      top == IF lens = {} THEN 0 ELSE CHOOSE m \in lens : \A k \in lens : k <= m
  IN  SortFrom(ds, 0, top)

\* env_logger filter Builder::build
BuildFilter(ds) ==
  IF ds = << >> THEN <<Directive(<< >>, Error)>> ELSE SortByNameLen(ds)

\* for (module, level) in log_targets { builder.filter_module(module, level) }
FilterModules(base, log_targets) == base \o log_targets

RECURSIVE EnabledFrom(_, _, _, _)
EnabledFrom(ds, i, level, target) ==
  IF i = 0 THEN FALSE
  ELSE IF StartsWith(target, ds[i].name) THEN level <= ds[i].level
  ELSE EnabledFrom(ds, i - 1, level, target)

RECURSIVE EnabledForward(_, _, _, _)
EnabledForward(ds, i, level, target) ==
  IF i > Len(ds) THEN FALSE
  ELSE IF StartsWith(target, ds[i].name) THEN level <= ds[i].level
  ELSE EnabledForward(ds, i + 1, level, target)

\* mutant: the directives are scanned from the front, so the first one wins
EnabledFirstMatch(ds, level, target) == EnabledForward(ds, 1, level, target)

\* env_logger filter `enabled`: directives.iter().rev(), first match decides
Enabled(ds, level, target) == EnabledFrom(ds, Len(ds), level, target)

\* Logger::filter(): the most verbose level of any directive
FilterMax(ds) ==
  LET ls == {ds[i].level : i \in DOMAIN ds}
  IN  CHOOSE m \in ls : \A k \in ls : k <= m

\* mutant: every record reaches the format closure once a logger is installed
AcceptedIgnoringFilter(level, target) == installed

\* a record reaches the format closure iff the log macro's max_level test and
\* the installed logger's filter both pass
Accepted(level, target) ==
  /\ installed
  /\ level <= maxLevel
  /\ Enabled(filter, level, target)

LogInit ==
  /\ installed = FALSE
  /\ filter = << >>
  /\ maxLevel = Off
  /\ loggerSink = 0
  /\ installCalls = 0
  /\ logTargets = << >>
  /\ calls = << >>
  /\ pc = [t \in Threads |-> "idle"]
  /\ cur = [t \in Threads |-> 0]
  /\ taskSt = [c \in CallIds |-> "none"]
  /\ taskSink = [c \in CallIds |-> 0]
  /\ stdout = << >>
  /\ stderr = << >>
  /\ delivered = [s \in Sinks |-> << >>]
  /\ sinkLen = [s \in Sinks |-> 0]
  /\ sinkClosed = [s \in Sinks |-> FALSE]

CfgInit ==
  /\ fs = UserDirs
  /\ basePaths = << >>
  /\ configs = << >>

\* RUST_LOG and DB_BASE_PATH unset
Init ==
  /\ rustLog = << >>
  /\ LogInit
  /\ dbBasePath = EnvUnset
  /\ CfgInit

\* ------------------------------------------------------------ the log tee
\* mutant: every call installs its logger, replacing the one in place
LoggerReinstall(log_targets) ==
  /\ installCalls < MaxInstalls
  /\ installCalls' = installCalls + 1
  /\ LET built == BuildFilter(FilterModules(rustLog, log_targets))
     IN  /\ installed' = TRUE
         /\ filter' = built
         /\ maxLevel' = FilterMax(built)
         /\ loggerSink' = installCalls + 1
         /\ logTargets' = log_targets
  /\ UNCHANGED <<rustLog, calls, pc, cur, taskSt, taskSink, stdout, stderr,
                 delivered, sinkLen, sinkClosed>>
  /\ UNCHANGED <<dbBasePath, fs, basePaths, configs>>

\* logger(log_targets, executor, log_sink): the k-th call supplies sink k
Logger(log_targets) ==
  /\ installCalls < MaxInstalls
  /\ installCalls' = installCalls + 1
  /\ LET built == BuildFilter(FilterModules(rustLog, log_targets))
     IN  IF ~installed
         THEN /\ installed' = TRUE
              /\ filter' = built
              /\ maxLevel' = FilterMax(built)
              /\ loggerSink' = installCalls + 1
              /\ logTargets' = log_targets
         ELSE UNCHANGED <<installed, filter, maxLevel, loggerSink, logTargets>>
  /\ UNCHANGED <<rustLog, calls, pc, cur, taskSt, taskSink, stdout, stderr,
                 delivered, sinkLen, sinkClosed>>
  /\ UNCHANGED cfgVars

\* mutant: the closure waits until the sink can take the entry
FormatClosureBlocking(t, id) ==
  /\ ~sinkClosed[loggerSink]
  /\ sinkLen[loggerSink] < SinkCap
  /\ taskSt' = [taskSt EXCEPT ![id] = "spawned"]
  /\ taskSink' = [taskSink EXCEPT ![id] = loggerSink]
  /\ pc' = [pc EXCEPT ![t] = "print"]
  /\ cur' = [cur EXCEPT ![t] = id]

\* the format closure: format the entry, write it to the buffer, clone the
\* sink and spawn the forwarding task
FormatClosure(t, id) ==
  /\ taskSt' = [taskSt EXCEPT ![id] = "spawned"]
  /\ taskSink' = [taskSink EXCEPT ![id] = loggerSink]
  /\ pc' = [pc EXCEPT ![t] = "print"]
  /\ cur' = [cur EXCEPT ![t] = id]

\* a log macro call by thread t
Log(t, level, target, msg) ==
  /\ pc[t] = "idle"
  /\ Len(calls) < MaxCalls
  /\ LET id == Len(calls) + 1
         ok == Accepted(level, target)
     IN  /\ calls' = Append(calls, [thread |-> t, level |-> level, target |-> target,
                                    msg |-> msg, accepted |-> ok,
                                    installs |-> installCalls,
                                    entry |-> FormatEntry(level, target, msg)])
         /\ IF ok THEN FormatClosure(t, id)
                  ELSE UNCHANGED <<taskSt, taskSink, pc, cur>>
  /\ UNCHANGED <<rustLog, installed, filter, maxLevel, loggerSink, installCalls, logTargets,
                 stdout, stderr, delivered, sinkLen, sinkClosed>>
  /\ UNCHANGED cfgVars

\* mutant: the line is put in front of what was already written
PrintBufferFront(id) ==
  /\ stderr' = <<[call |-> id, text |-> WriteLn(calls[id].entry)]>> \o stderr
  /\ stdout' = stdout

\* the writer prints the buffer to the builder's target and the call returns
PrintBuffer(id) ==
  /\ stderr' = Append(stderr, [call |-> id, text |-> WriteLn(calls[id].entry)])
  /\ stdout' = stdout

LogReturn(t) ==
  /\ pc[t] = "print"
  /\ PrintBuffer(cur[t])
  /\ pc' = [pc EXCEPT ![t] = "idle"]
  /\ cur' = [cur EXCEPT ![t] = 0]
  /\ UNCHANGED <<rustLog, installed, filter, maxLevel, loggerSink, installCalls, logTargets,
                 calls, taskSt, taskSink, delivered, sinkLen, sinkClosed>>
  /\ UNCHANGED cfgVars

\* mutant: the entry is sent twice
SendEntryTwice(id) ==
  LET s == taskSink[id]
      item == [call |-> id, text |-> calls[id].entry]
  IN  IF sinkClosed[s]
      THEN /\ taskSt' = [taskSt EXCEPT ![id] = "panicked"]
           /\ UNCHANGED <<delivered, sinkLen>>
      ELSE /\ sinkLen[s] < SinkCap
           /\ delivered' = [delivered EXCEPT ![s] = @ \o <<item, item>>]
           /\ sinkLen' = [sinkLen EXCEPT ![s] = @ + 1]
           /\ taskSt' = [taskSt EXCEPT ![id] = "done"]

\* mutant: the send goes through although the sink is closed
SendEntryIgnoringClose(id) ==
  LET s == taskSink[id]
  IN  /\ sinkLen[s] < SinkCap
      /\ delivered' = [delivered EXCEPT
                         ![s] = Append(@, [call |-> id, text |-> calls[id].entry])]
      /\ sinkLen' = [sinkLen EXCEPT ![s] = @ + 1]
      /\ taskSt' = [taskSt EXCEPT ![id] = "done"]

\* log_sink_clone.send(entry).await.expect("log_stream is dropped")
SendEntry(id) ==
  LET s == taskSink[id]
  IN  IF sinkClosed[s]
      THEN /\ taskSt' = [taskSt EXCEPT ![id] = "panicked"]
           /\ UNCHANGED <<delivered, sinkLen>>
      ELSE /\ sinkLen[s] < SinkCap
           /\ delivered' = [delivered EXCEPT
                              ![s] = Append(@, [call |-> id, text |-> calls[id].entry])]
           /\ sinkLen' = [sinkLen EXCEPT ![s] = @ + 1]
           /\ taskSt' = [taskSt EXCEPT ![id] = "done"]

\* the executor polls the forwarding task of call id
RunTask(id) ==
  /\ taskSt[id] = "spawned"
  /\ SendEntry(id)
  /\ UNCHANGED <<rustLog, installed, filter, maxLevel, loggerSink, installCalls, logTargets,
                 calls, pc, cur, taskSink, stdout, stderr, sinkClosed>>
  /\ UNCHANGED cfgVars

\* the sink's consumer takes one string
SinkRecv(s) ==
  /\ sinkLen[s] > 0
  /\ sinkLen' = [sinkLen EXCEPT ![s] = @ - 1]
  /\ UNCHANGED <<rustLog, installed, filter, maxLevel, loggerSink, installCalls, logTargets,
                 calls, pc, cur, taskSt, taskSink, stdout, stderr, delivered, sinkClosed>>
  /\ UNCHANGED cfgVars

\* the consumer of the sink the installed logger sends to closes or drops it
SinkClose(s) ==
  /\ s = loggerSink
  /\ ~sinkClosed[s]
  /\ sinkClosed' = [sinkClosed EXCEPT ![s] = TRUE]
  /\ UNCHANGED <<rustLog, installed, filter, maxLevel, loggerSink, installCalls, logTargets,
                 calls, pc, cur, taskSt, taskSink, stdout, stderr, delivered, sinkLen>>
  /\ UNCHANGED cfgVars

Next ==
  \/ \E lt \in LogTargetChoices : Logger(lt)
  \/ \E t \in Threads, r \in Records, m \in Messages : Log(t, r[1], r[2], m)
  \/ \E t \in Threads : LogReturn(t)
  \/ \E id \in CallIds : RunTask(id)
  \/ \E s \in Sinks : SinkRecv(s)
  \/ \E s \in Sinks : SinkClose(s)

Spec == Init /\ [][Next]_vars

\* the executor runs every spawned task, the sink's consumer keeps taking
\* strings and every thread finishes its logging call
Fairness ==
  /\ \A id \in CallIds : WF_vars(RunTask(id))
  /\ \A s \in Sinks : WF_vars(SinkRecv(s))
  /\ \A t \in Threads : WF_vars(LogReturn(t))

FairNext ==
  \/ \E lt \in LogTargetChoices : Logger(lt)
  \/ \E t \in Threads, r \in FairRecords, m \in Messages : Log(t, r[1], r[2], m)
  \/ \E t \in Threads : LogReturn(t)
  \/ \E id \in CallIds : RunTask(id)
  \/ \E s \in Sinks : SinkRecv(s)
  \/ \E s \in Sinks : SinkClose(s)

FairSpec == Init /\ [][FairNext]_vars /\ Fairness

\* the filter alone: one thread probes loggers installed with every sequence
\* of overrides, under every RUST_LOG choice
FilterInit ==
  /\ rustLog \in RustLogChoices
  /\ LogInit
  /\ dbBasePath = EnvUnset
  /\ CfgInit

FilterNext ==
  \/ \E lt \in LogTargetInputs : Logger(lt)
  \/ \E r \in Probes, m \in Messages : Log("t1", r[1], r[2], m)
  \/ LogReturn("t1")

FilterSpec == FilterInit /\ [][FilterNext]_vars

\* ------------------------------------------------- base_path, default_config
\* mutant: a failed creation falls back to a fixed directory
BasePathOfFallback(env, made) ==
  IF env.state = "unicode"
  THEN [outcome |-> "ok", kind |-> "Permanent", path |-> env.value, msg |-> "",
        tempDirCalls |-> 0]
  ELSE IF made # NoDir
  THEN [outcome |-> "ok", kind |-> "Temp", path |-> TempPath(made), msg |-> "",
        tempDirCalls |-> 1]
  ELSE [outcome |-> "ok", kind |-> "Permanent", path |-> <<"tmp">>, msg |-> "",
        tempDirCalls |-> 1]

\* base_path(): `made` is what BasePath::new_temp_dir() returns when called
BasePathOf(env, made) ==
  IF env.state = "unicode"
  THEN [outcome |-> "ok", kind |-> "Permanent", path |-> env.value, msg |-> "",
        tempDirCalls |-> 0]
  ELSE IF made # NoDir
  THEN [outcome |-> "ok", kind |-> "Temp", path |-> TempPath(made), msg |-> "",
        tempDirCalls |-> 1]
  ELSE [outcome |-> "panic", kind |-> "None", path |-> << >>,
        msg |-> "couldn't create a temp dir", tempDirCalls |-> 1]

\* what new_temp_dir can return: a directory that did not exist, or an error
TempDirOutcomes(env) ==
  IF env.state = "unicode" THEN {NoDir}
  ELSE {n \in TmpNames : TempPath(n) \notin fs} \cup {NoDir}

\* the record kept of one base_path() call
Resolved(r, env, made, live) ==
  [outcome |-> r.outcome, kind |-> r.kind, path |-> r.path, msg |-> r.msg,
   tempDirCalls |-> r.tempDirCalls, env |-> env, made |-> made, live |-> live]

\* a direct call of base_path() whose caller keeps the handle
BasePath(made) ==
  /\ Len(basePaths) < MaxBasePaths
  /\ made \in TempDirOutcomes(dbBasePath)
  /\ LET r == BasePathOf(dbBasePath, made)
     IN  /\ basePaths' = Append(basePaths, Resolved(r, dbBasePath, made, r.outcome = "ok"))
         /\ fs' = IF r.kind = "Temp" THEN fs \cup {r.path} ELSE fs
  /\ UNCHANGED <<dbBasePath, configs>>
  /\ UNCHANGED logVars

\* the handle of base_path() call i is dropped: a temporary directory is removed
DropBasePath(i) ==
  /\ i \in DOMAIN basePaths
  /\ basePaths[i].live
  /\ basePaths' = [basePaths EXCEPT ![i].live = FALSE]
  /\ fs' = IF basePaths[i].kind = "Temp" THEN fs \ {basePaths[i].path} ELSE fs
  /\ UNCHANGED <<dbBasePath, configs>>
  /\ UNCHANGED logVars

\* mutant: a failed storage build is ignored and the chain spec is used as it is
ConfigOfUnchecked(r, handle, chainId, storageOk) ==
  LET root_path == r.path \o <<"chains", chainId>>
  IN  IF r.outcome = "panic"
      THEN [outcome |-> "panic", msg |-> r.msg, storageOk |-> storageOk,
            resolved |-> handle,
            chain_spec |-> [id |-> chainId, storage |-> FALSE], base_path |-> 0,
            keystore |-> << >>, database |-> << >>]
      ELSE [outcome |-> "ok", msg |-> "", storageOk |-> storageOk,
            resolved |-> handle,
            chain_spec |-> [id |-> chainId, storage |-> storageOk], base_path |-> handle,
            keystore |-> root_path \o <<"key">>, database |-> root_path \o <<"db">>]

\* default_config after base_path() returned r (the `resolved`-th base_path()
\* call): build the storage, attach it, fill in the Configuration
ConfigOf(r, handle, chainId, storageOk) ==
  LET root_path == r.path \o <<"chains", chainId>>
  IN  IF r.outcome = "panic"
      THEN [outcome |-> "panic", msg |-> r.msg, storageOk |-> storageOk,
            resolved |-> handle,
            chain_spec |-> [id |-> chainId, storage |-> FALSE], base_path |-> 0,
            keystore |-> << >>, database |-> << >>]
      ELSE IF ~storageOk
      THEN [outcome |-> "panic", msg |-> "could not build storage",
            storageOk |-> storageOk, resolved |-> handle,
            chain_spec |-> [id |-> chainId, storage |-> FALSE], base_path |-> 0,
            keystore |-> << >>, database |-> << >>]
      ELSE [outcome |-> "ok", msg |-> "", storageOk |-> storageOk,
            resolved |-> handle,
            chain_spec |-> [id |-> chainId, storage |-> TRUE], base_path |-> handle,
            keystore |-> root_path \o <<"key">>, database |-> root_path \o <<"db">>]

\* default_config(task_executor, chain_spec); a panic after base_path()
\* returned drops the handle while unwinding
DefaultConfig(made, chainId, storageOk) ==
  /\ Len(basePaths) < MaxBasePaths
  /\ made \in TempDirOutcomes(dbBasePath)
  /\ LET r == BasePathOf(dbBasePath, made)
         handle == Len(basePaths) + 1
         c == ConfigOf(r, handle, chainId, storageOk)
     IN  /\ configs' = Append(configs, c)
         /\ basePaths' = Append(basePaths, Resolved(r, dbBasePath, made, c.outcome = "ok"))
         /\ fs' = IF r.kind = "Temp" /\ c.outcome = "ok" THEN fs \cup {r.path} ELSE fs
  /\ UNCHANGED dbBasePath
  /\ UNCHANGED logVars

\* the environment of the test process changes DB_BASE_PATH
SetEnv(e) ==
  /\ e # dbBasePath
  /\ dbBasePath' = e
  /\ UNCHANGED <<fs, basePaths, configs>>
  /\ UNCHANGED logVars

CfgNext ==
  \/ \E made \in TmpNames \cup {NoDir} : BasePath(made)
  \/ \E i \in 1..MaxBasePaths : DropBasePath(i)
  \/ \E made \in TmpNames \cup {NoDir}, id \in ChainIds, ok \in BOOLEAN :
        DefaultConfig(made, id, ok)
  \/ \E e \in EnvStates : SetEnv(e)

\* the test process may start with DB_BASE_PATH in any state
CfgSpecInit ==
  /\ rustLog = << >>
  /\ LogInit
  /\ dbBasePath \in EnvStates
  /\ CfgInit

CfgSpec == CfgSpecInit /\ [][CfgNext]_vars

\* ------------------------------------------------------------- properties
\* Display of log::Level, as the formatted line is expected to show it
LevelText == [l \in {Error, Warn, Info, Debug} |->
                CASE l = Error -> <<"E", "R", "R", "O", "R">>
                  [] l = Warn  -> <<"W", "A", "R", "N">>
                  [] l = Info  -> <<"I", "N", "F", "O">>
                  [] l = Debug -> <<"D", "E", "B", "U", "G">>]

\* "<LEVEL> <TARGET> <MESSAGE>" of call c
ExpectedEntry(c) == LevelText[c.level] \o <<" ">> \o c.target \o <<" ">> \o c.msg

Made(i) == i \in DOMAIN calls
Printing(i) == \E t \in Threads : pc[t] = "print" /\ cur[t] = i
Returned(i) == Made(i) /\ ~Printing(i)
Lines(stream, i) == {k \in DOMAIN stream : stream[k].call = i}
SinkItems(s, i) == {k \in DOMAIN delivered[s] : delivered[s][k].call = i}
OneLine(stream, i) ==
  /\ Cardinality(Lines(stream, i)) = 1
  /\ \A k \in Lines(stream, i) : stream[k].text = ExpectedEntry(calls[i]) \o <<"\n">>

\* what holds of an accepted call i at every moment: its line is on `stream`
\* once the call has returned and not before, never twice; its entry is in the
\* installed sink at most once, and once exactly when its task has finished
TeeOnce(stream, i) ==
  /\ Lines(stream, i) # {} <=> Returned(i)
  /\ Returned(i) => OneLine(stream, i)
  /\ Cardinality(SinkItems(loggerSink, i)) <= 1
  /\ Cardinality(SinkItems(loggerSink, i)) = 1 <=> taskSt[i] = "done"
  /\ \A k \in SinkItems(loggerSink, i) :
        delivered[loggerSink][k].text = ExpectedEntry(calls[i])

Silent(i) ==
  /\ Lines(stdout, i) = {}
  /\ Lines(stderr, i) = {}
  /\ \A s \in Sinks : SinkItems(s, i) = {}
  /\ taskSt[i] = "none"

\* the scenario of C2: with filter [(a, Info)], a record from a is accepted
\* iff its level is Info or more severe
InfoScenario(i) ==
  (logTargets = <<Directive(ModA, Info)>> /\ calls[i].installs >= 1
     /\ calls[i].target = ModA)
    => (calls[i].accepted <=> calls[i].level <= Info)

AfterReinstall(i) == calls[i].accepted /\ calls[i].installs >= 2

\* the first installation is the one in force
FirstInstallation ==
  /\ installed <=> installCalls >= 1
  /\ installed => /\ loggerSink = 1
                  /\ filter = BuildFilter(FilterModules(rustLog, logTargets))
  /\ \A s \in Sinks : s # 1 => delivered[s] = << >>
  /\ \A i \in DOMAIN calls : calls[i].accepted => taskSink[i] = 1

LastOverride(lt, m) ==
  LET ks == {k \in DOMAIN lt : lt[k].name = m}
  IN  lt[CHOOSE k \in ks : \A j \in ks : j <= k].level

\* C4: when log_targets names a module more than once the last override
\* decides, whatever RUST_LOG holds: a record whose target is that module is
\* accepted iff its level is at least as severe as the last override's, so
\* under [(a, Warn), (a, Error)] a Warn record from a is rejected and an Error
\* record accepted.
C4LastOverrideWins ==
  \A i \in DOMAIN calls :
    calls[i].installs >= 1 =>
      \A k \in DOMAIN logTargets :
        calls[i].target = logTargets[k].name =>
          (calls[i].accepted <=> calls[i].level <= LastOverride(logTargets, calls[i].target))

C4Witness ==
  /\ logTargets = <<Directive(ModA, Warn), Directive(ModA, Error)>>
  /\ \E i, j \in DOMAIN calls :
       /\ calls[i].installs >= 1 /\ calls[i].target = ModA /\ calls[i].level = Warn
       /\ ~calls[i].accepted
       /\ calls[j].target = ModA /\ calls[j].level = Error /\ calls[j].accepted

\* C5: base_path() returns DB_BASE_PATH verbatim as a permanent path whenever
\* the variable is set, and otherwise a fresh temporary directory distinct
\* from every directory an earlier invocation returned.
C5BasePathFromEnv ==
  \A i \in DOMAIN basePaths :
    LET b == basePaths[i]
    IN  /\ b.env.state # "unset" =>
             b.outcome = "ok" /\ b.kind = "Permanent" /\ b.path = b.env.value
        /\ (b.env.state = "unset" /\ b.outcome = "ok") =>
             /\ b.kind = "Temp"
             /\ \A j \in 1..(i - 1) : basePaths[j].path # b.path

\* a forwarding task that found its sink closed
Panicked(i) == Made(i) /\ taskSt[i] = "panicked"

\* a closed sink fails the task and nothing else, and the send is not repeated
PanicIsLocal ==
  \A i \in CallIds :
    /\ (taskSt[i] = "spawned" /\ taskSt'[i] # "spawned" /\ sinkClosed[taskSink[i]])
         => /\ taskSt'[i] = "panicked"
            /\ delivered' = delivered
            /\ <<pc, cur, installed, filter, maxLevel, stdout, stderr>>'
                 = <<pc, cur, installed, filter, maxLevel, stdout, stderr>>
    /\ taskSt[i] = "panicked"
         => taskSt'[i] = "panicked" /\ delivered' = delivered

\* every accepted call has a task of its own, whatever became of earlier tasks
OwnTask(i) ==
  /\ calls[i].accepted <=> (calls[i].installs >= 1
                             /\ Enabled(filter, calls[i].level, calls[i].target))
  /\ calls[i].accepted => taskSt[i] # "none"

OnlyEnqueues ==
  (Len(calls') = Len(calls) + 1 /\ calls'[Len(calls')].accepted)
    => /\ taskSt' = [taskSt EXCEPT ![Len(calls')] = "spawned"]
       /\ delivered' = delivered
       /\ sinkLen' = sinkLen

\* a thread can always start and finish a logging call, whatever the state of
\* the sink and of the tasks
NeverBlocked ==
  \A t \in Threads :
    /\ pc[t] = "print" => ENABLED LogReturn(t)
    /\ (pc[t] = "idle" /\ Len(calls) < MaxCalls)
         => \A r \in Records, m \in Messages : ENABLED Log(t, r[1], r[2], m)

\* C7: an accepted log call enqueues one detached task and returns without
\* waiting for delivery: it can start and return when the sink is full, closed
\* or never polled and when the executor never runs the task.
C7NeverBlocks == [][OnlyEnqueues]_vars /\ []NeverBlocked

C7Witness ==
  \E i \in DOMAIN calls :
    /\ calls[i].accepted
    /\ Returned(i)
    /\ taskSt[i] = "spawned"
    /\ sinkLen[loggerSink] = SinkCap

\* two accepted calls of one thread, i before j
SameThread(i, j) ==
  /\ i < j
  /\ calls[i].thread = calls[j].thread
  /\ calls[i].accepted /\ calls[j].accepted

\* the lines of one thread's calls are on `stream` in call order, each written
\* before its call returns
InCallOrder(stream) ==
  /\ \A i \in DOMAIN calls :
       (calls[i].accepted /\ Returned(i)) => OneLine(stream, i)
  /\ \A i, j \in DOMAIN calls :
       SameThread(i, j) =>
         /\ Lines(stream, j) # {} => Lines(stream, i) # {}
         /\ \A a \in Lines(stream, i), b \in Lines(stream, j) : a < b

C9StorageAttached ==
  \A k \in DOMAIN configs :
    LET c == configs[k]
        b == basePaths[c.resolved]
    IN  /\ c.outcome = "ok" => /\ c.chain_spec.storage
                               /\ c.storageOk
                               /\ c.base_path = c.resolved
                               /\ b.outcome = "ok"
        /\ ~c.storageOk => c.outcome = "panic"
        /\ (~c.storageOk /\ b.outcome = "ok") => c.msg = "could not build storage"
        /\ c.outcome = "panic" => c.base_path = 0 /\ ~c.chain_spec.storage

C9Witness ==
  \E k, n \in DOMAIN configs :
    /\ configs[k].outcome = "ok" /\ configs[k].chain_spec.storage
    /\ configs[n].outcome = "panic" /\ configs[n].msg = "could not build storage"

\* base_path() call i found DB_BASE_PATH unset and could not create a directory
TempDirFailed(i) == basePaths[i].env.state = "unset" /\ basePaths[i].made = NoDir

\* C10: with DB_BASE_PATH unset and the temporary directory not created,
\* base_path panics with "couldn't create a temp dir" after one attempt and
\* returns no path, and a default_config that called it returns no configuration.
C10TempDirFailureIsFatal ==
  /\ \A i \in DOMAIN basePaths :
       TempDirFailed(i) =>
         /\ basePaths[i].outcome = "panic"
         /\ basePaths[i].msg = "couldn't create a temp dir"
         /\ basePaths[i].path = << >>
         /\ basePaths[i].tempDirCalls = 1
         /\ ~basePaths[i].live
  /\ \A k \in DOMAIN configs :
       TempDirFailed(configs[k].resolved) =>
         /\ configs[k].outcome = "panic"
         /\ configs[k].msg = "couldn't create a temp dir"
  /\ \A i \in DOMAIN basePaths :
       basePaths[i].outcome = "ok" => basePaths[i].path # << >>

C10Witness ==
  \E k \in DOMAIN configs :
    /\ TempDirFailed(configs[k].resolved)
    /\ configs[k].outcome = "panic"
    /\ \E i \in DOMAIN basePaths : i # configs[k].resolved /\ TempDirFailed(i)

====
